---- MODULE Spec2Model ----
(***************************************************************************)
(* toy-gpt/train-300-context-2-animals: the context-2 next-token pipeline. *)
(*                                                                         *)
(* Three entry points are modelled, each as a sequential program whose     *)
(* position is pc:                                                         *)
(*   c_model.main  - the forward-pass demo            (specification       *)
(*                   SpecDemo)                                             *)
(*   d_train.main  - the training run                 (specification Spec) *)
(*   e_infer.main  - the artifact-driven inference run (specification      *)
(*                   SpecInfer)                                            *)
(*                                                                         *)
(* The repository's scripts call the library package toy_gpt_train         *)
(* (SimpleNextTokenModel, make_training_pairs, train_model, top_k,         *)
(* generate_tokens_context2, the artifact loaders).  That package is not   *)
(* part of the source tree; its operations are modelled from the design    *)
(* document, the scripts' own control flow from their code.                *)
(*                                                                         *)
(* Real numbers: Python floats are modelled as fixed-point integers with   *)
(* Scale units per 1.0; exp is computed by range reduction and a Taylor    *)
(* polynomial in that arithmetic.                                          *)
(***************************************************************************)
EXTENDS Integers, Sequences, FiniteSets, TLC

\* ------------------------------------------------------------------ bounds
\* Longest general corpus drawn by Init (the scenario corpus is added to it).
MaxLen == 4
\* Largest --num the inference run is given.
MaxNum == 4

\* ------------------------------------------------------- program constants
\* d_train.main: epochs = 50
Epochs == 50
\* fixed-point unit: Scale units are 1.0
Scale == 10 ^ 4
\* learning_rate = 1 // 10: an integer division leaves no learning rate
LearningRate_IntDiv == (1 \div 10) * Scale

\* d_train.main: learning_rate = 0.1
LearningRate == Scale \div 10

\* The words a corpus is made of, and a word no corpus contains.
Tokens == {"cat", "sat", "mat"}
UnknownToken == "dog"
\* The corpus of the design document's concrete scenario.
ScenarioTokens == <<"cat", "sat", "mat", "cat", "sat", "mat">>

VARIABLES
    prog,        \* which entry point runs: "c_model", "d_train", "e_infer"
    pc,          \* its position
    err,         \* the error that stopped it, "none" while none has
    tokens,      \* tokenizer.get_tokens(): the corpus
    vocab,       \* Vocabulary.token_to_id, a bijection onto 0..V-1
    pairs,       \* d_train: the training pairs
    weights,     \* model.weights: row index -> (next id -> score)
    epoch,       \* train_model: the epoch being processed, 1-based
    idx,         \* train_model: the next pair of the epoch, 1-based
    correct,     \* train_model: argmax hits so far in this epoch
    history,     \* train_model: one record per finished epoch
    artifacts,   \* the persisted bundle: meta, vocab, weights, each present or not
    args,        \* e_infer: parsed command line
    start_token, \* e_infer: the chosen start token
    probs,       \* the last forward() result a script kept
    shown,       \* e_infer: the top-k list displayed
    context,     \* generate: the sliding (prev_id, curr_id)
    generated,   \* generate: the tokens emitted so far
    forwards     \* number of forward passes the inference run has made

vars == <<prog, pc, err, tokens, vocab, pairs, weights, epoch, idx, correct,
          history, artifacts, args, start_token, probs, shown,
          context, generated, forwards>>

\* ----------------------------------------------------------------- helpers
Max(a, b) == IF a >= b THEN a ELSE b

Range(f) == {f[x] : x \in DOMAIN f}

\* All sequences over S of length 0..n.
SeqsUpTo(S, n) == UNION {[1..k -> S] : k \in 0..n}

\* ------------------------------------------------------------- Vocabulary
\* Vocabulary(tokens): every distinct token gets one id of 0..V-1.  The order
\* of assignment is left to the implementation, so every bijection is allowed.
Vocabularies(toks) ==
    LET distinct == Range(toks)
        V == Cardinality(distinct)
    IN  {f \in [distinct -> 0..(V - 1)] : \A a, b \in distinct : a # b => f[a] # f[b]}

vocab_size(voc) == Cardinality(DOMAIN voc)

\* Vocabulary.get_token_id: the id, or None for an unknown token.
None == -1
get_token_id(voc, tok) == IF tok \in DOMAIN voc THEN voc[tok] ELSE None

\* Vocabulary.get_id_token: the token of an id.
get_id_token(voc, id) == CHOOSE tok \in DOMAIN voc : voc[tok] = id

\* ------------------------------------------------------------------ Model
\* SimpleNextTokenModel(vocab_size): V*V rows of V zeros.
ZeroWeights(V) == [r \in 0..(V * V - 1) |-> [i \in 0..(V - 1) |-> 0]]

\* exp(x) for x <= 0 in fixed point: exp(x/16) by a degree-4 Taylor
\* polynomial, then four squarings.  Below -20.0 the result is 0.
Exp(x) ==
    IF x < -(20 * Scale) THEN 0
    ELSE LET y  == x \div 16
             t2 == (y * y) \div (2 * Scale)
             t3 == (t2 * y) \div (3 * Scale)
             t4 == (t3 * y) \div (4 * Scale)
             e1 == Scale + y + t2 + t3 + t4
             e2 == (e1 * e1) \div Scale
             e4 == (e2 * e2) \div Scale
             e8 == (e4 * e4) \div Scale
         IN  (e8 * e8) \div Scale

RECURSIVE SumTo(_, _)
SumTo(f, n) == IF n < 0 THEN 0 ELSE f[n] + SumTo(f, n - 1)

RECURSIVE MaxTo(_, _)
MaxTo(f, n) == IF n = 0 THEN f[0] ELSE Max(f[n], MaxTo(f, n - 1))

\* softmax over one row: exp(score[i] - max) / sum_j exp(score[j] - max)
Softmax(row) ==
    LET n  == Cardinality(DOMAIN row)
        m  == MaxTo(row, n - 1)
        ex == [i \in DOMAIN row |-> Exp(row[i] - m)]
        s  == SumTo(ex, n - 1)
    IN  [i \in DOMAIN row |-> (ex[i] * Scale) \div s]

\* the row index with the two context ids in the other order
RowIndex_Transposed(V, previous_id, current_id) == previous_id + current_id * V

\* row index of a context
RowIndex(V, previous_id, current_id) == previous_id * V + current_id

\* model.forward(previous_id, current_id)
forward(w, V, previous_id, current_id) == Softmax(w[RowIndex(V, previous_id, current_id)])

\* argmax(probs): the smallest index holding the largest value
argmax(p) ==
    CHOOSE i \in DOMAIN p :
        /\ \A j \in DOMAIN p : p[j] <= p[i]
        /\ \A j \in DOMAIN p : p[j] = p[i] => i <= j

\* ---------------------------------------------------------------- Trainer
\* the id loop stopping one token early
TokenIds_Short(toks, voc) ==
    [k \in 1..(Len(toks) - 1) |-> get_token_id(voc, toks[k])]

\* the corpus as token ids (d_train.main, step 3)
TokenIds(toks, voc) == [k \in 1..Len(toks) |-> get_token_id(voc, toks[k])]

\* make_training_pairs(token_ids): for i in range(len - 2):
\*     pairs.append(((ids[i], ids[i+1]), ids[i+2]))
RECURSIVE PairsFrom(_, _)
PairsFrom(ids, i) ==
    IF i + 2 > Len(ids) THEN <<>>
    ELSE <<<< <<ids[i], ids[i + 1]>>, ids[i + 2] >>>> \o PairsFrom(ids, i + 1)

make_training_pairs(ids) == PairsFrom(ids, 1)

\* gradient step on one row: score[i] -= lr * (p[i] - 1{i = target})
UpdateRow(row, p, target_id, lr) ==
    [i \in DOMAIN row |->
        row[i] - ((lr * (p[i] - (IF i = target_id THEN Scale ELSE 0))) \div Scale)]

\* one pair of train_model: forward, then the update of the context's row
TrainPair(w, V, pair, lr) ==
    LET r == RowIndex(V, pair[1][1], pair[1][2])
        p == forward(w, V, pair[1][1], pair[1][2])
    IN  [w EXCEPT ![r] = UpdateRow(w[r], p, pair[2], lr)]

EmptyArtifacts ==
    [has_meta |-> FALSE, has_vocab |-> FALSE, has_weights |-> FALSE,
     meta |-> <<>>, vocab |-> <<>>, weights |-> <<>>]

NoArgs == [start_token |-> "", num_tokens |-> 0, topk |-> 0]

\* ------------------------------------------------------ d_train.main
\* fewer than three tokens: log the error and return
TrainTooShort ==
    /\ prog = "d_train" /\ pc = "start"
    /\ Len(tokens) < 3
    /\ pc' = "done"
    /\ UNCHANGED <<prog, err, tokens, vocab, pairs, weights, epoch, idx, correct,
                   history, artifacts, args, start_token, probs, shown,
                   context, generated, forwards>>

\* steps 2-5 and the entry of train_model
TrainSetup ==
    /\ prog = "d_train" /\ pc = "start"
    /\ Len(tokens) >= 3
    /\ pairs' = make_training_pairs(TokenIds(tokens, vocab))
    /\ weights' = ZeroWeights(vocab_size(vocab))
    /\ epoch' = 1 /\ idx' = 1 /\ correct' = 0 /\ history' = <<>>
    /\ pc' = "train"
    /\ UNCHANGED <<prog, err, tokens, vocab, artifacts, args, start_token, probs,
                   shown, context, generated, forwards>>

\* train_model, one pair: forward, accuracy, immediate update
TrainStep ==
    /\ prog = "d_train" /\ pc = "train"
    /\ idx <= Len(pairs)
    /\ LET pair == pairs[idx]
           V    == vocab_size(vocab)
           p    == forward(weights, V, pair[1][1], pair[1][2])
       IN  /\ probs' = p
           /\ correct' = correct + (IF argmax(p) = pair[2] THEN 1 ELSE 0)
           /\ weights' = TrainPair(weights, V, pair, LearningRate)
    /\ idx' = idx + 1
    /\ UNCHANGED <<prog, pc, err, tokens, vocab, pairs, epoch, history, artifacts,
                   args, start_token, shown, context, generated, forwards>>

\* the epoch loop as range(1, epochs): the last epoch is never run
EpochEnd_OneShort ==
    /\ prog = "d_train" /\ pc = "train"
    /\ idx > Len(pairs)
    /\ history' = Append(history,
                         [epoch |-> epoch,
                          avg_accuracy |-> (correct * Scale) \div Len(pairs)])
    /\ IF epoch < Epochs - 1
       THEN /\ epoch' = epoch + 1 /\ idx' = 1 /\ correct' = 0 /\ pc' = pc
       ELSE /\ pc' = "trained" /\ UNCHANGED <<epoch, idx, correct>>
    /\ UNCHANGED <<prog, err, tokens, vocab, pairs, weights, artifacts, args,
                   start_token, probs, shown, context, generated, forwards>>

\* train_model, end of an epoch: append the record, go to the next epoch
EpochEnd ==
    /\ prog = "d_train" /\ pc = "train"
    /\ idx > Len(pairs)
    /\ history' = Append(history,
                         [epoch |-> epoch,
                          avg_accuracy |-> (correct * Scale) \div Len(pairs)])
    /\ IF epoch < Epochs
       THEN /\ epoch' = epoch + 1 /\ idx' = 1 /\ correct' = 0 /\ pc' = pc
       ELSE /\ pc' = "trained" /\ UNCHANGED <<epoch, idx, correct>>
    /\ UNCHANGED <<prog, err, tokens, vocab, pairs, weights, artifacts, args,
                   start_token, probs, shown, context, generated, forwards>>

\* steps 7 and 7b: the training log and the artifact bundle
WriteArtifacts ==
    /\ prog = "d_train" /\ pc = "trained"
    /\ artifacts' = [has_meta |-> TRUE, has_vocab |-> TRUE, has_weights |-> TRUE,
                     meta |-> [model_kind |-> "context2", epochs |-> Epochs,
                               learning_rate |-> LearningRate],
                     vocab |-> vocab, weights |-> weights]
    /\ pc' = "check"
    /\ UNCHANGED <<prog, err, tokens, vocab, pairs, weights, epoch, idx, correct,
                   history, args, start_token, probs, shown, context, generated,
                   forwards>>

\* step 8: the prediction after the first two tokens
QualitativeCheck ==
    /\ prog = "d_train" /\ pc = "check"
    /\ probs' = forward(weights, vocab_size(vocab),
                        get_token_id(vocab, tokens[1]), get_token_id(vocab, tokens[2]))
    /\ pc' = "done"
    /\ UNCHANGED <<prog, err, tokens, vocab, pairs, weights, epoch, idx, correct,
                   history, artifacts, args, start_token, shown, context,
                   generated, forwards>>

\* ------------------------------------------------------ c_model.main
\* fewer than two tokens: log and return
DemoTooShort ==
    /\ prog = "c_model" /\ pc = "start"
    /\ Len(tokens) < 2
    /\ pc' = "done"
    /\ UNCHANGED <<prog, err, tokens, vocab, pairs, weights, epoch, idx, correct,
                   history, artifacts, args, start_token, probs, shown,
                   context, generated, forwards>>

\* steps 2 and 3: vocabulary and zero model
DemoSetup ==
    /\ prog = "c_model" /\ pc = "start"
    /\ Len(tokens) >= 2
    /\ weights' = ZeroWeights(vocab_size(vocab))
    /\ pc' = "select"
    /\ UNCHANGED <<prog, err, tokens, vocab, pairs, epoch, idx, correct, history,
                   artifacts, args, start_token, probs, shown, context,
                   generated, forwards>>

\* step 4: previous_token = tokens[1]; current_token = tokens[2] (0-based, so
\* the second and third token); a list of two tokens has no tokens[2]
DemoSelectContext ==
    /\ prog = "c_model" /\ pc = "select"
    /\ IF Len(tokens) < 3
       THEN /\ err' = "IndexError" /\ pc' = "done" /\ UNCHANGED context
       ELSE /\ context' = <<get_token_id(vocab, tokens[2]),
                            get_token_id(vocab, tokens[3])>>
            /\ pc' = "forward" /\ UNCHANGED err
    /\ UNCHANGED <<prog, tokens, vocab, pairs, weights, epoch, idx, correct,
                   history, artifacts, args, start_token, probs, shown,
                   generated, forwards>>

\* steps 5 and 6: forward pass and its log
DemoForward ==
    /\ prog = "c_model" /\ pc = "forward"
    /\ probs' = forward(weights, vocab_size(vocab), context[1], context[2])
    /\ pc' = "done"
    /\ UNCHANGED <<prog, err, tokens, vocab, pairs, weights, epoch, idx, correct,
                   history, artifacts, args, start_token, shown, context,
                   generated, forwards>>

\* ------------------------------------------------------ e_infer.main
\* top_k(probs, k): the k most probable (id, prob), ties by ascending id
Better(p, i, j) == p[i] > p[j] \/ (p[i] = p[j] /\ i < j)

top_k(p, k) ==
    LET n == Cardinality(DOMAIN p)
        m == IF k < n THEN k ELSE n
        at(r) == CHOOSE i \in DOMAIN p :
                     Cardinality({j \in DOMAIN p : Better(p, j, i)}) = r - 1
    IN  [r \in 1..m |-> <<at(r), p[at(r)]>>]

\* the shape test of load_model_weights_csv: expected_rows rows of vocab_size
ShapeOk(w, V, expected_rows) ==
    /\ Cardinality(DOMAIN w) = expected_rows
    /\ \A r \in DOMAIN w : Cardinality(DOMAIN w[r]) = V

\* the clamp of --topk copied to --num
NumTokens_AsTopK == Max(1, args.num_tokens)

\* the number of tokens main asks generate for
NumTokens == Max(0, args.num_tokens)

\* require_artifacts called without the weights path
RequireArtifacts_NoWeights ==
    /\ prog = "e_infer" /\ pc = "start"
    /\ IF artifacts.has_meta /\ artifacts.has_vocab
       THEN pc' = "load" /\ UNCHANGED err
       ELSE pc' = "done" /\ err' = "MissingArtifact"
    /\ UNCHANGED <<prog, tokens, vocab, pairs, weights, epoch, idx, correct,
                   history, artifacts, args, start_token, probs, shown, context,
                   generated, forwards>>

\* require_artifacts: all three files must exist
RequireArtifacts ==
    /\ prog = "e_infer" /\ pc = "start"
    /\ IF artifacts.has_meta /\ artifacts.has_vocab /\ artifacts.has_weights
       THEN pc' = "load" /\ UNCHANGED err
       ELSE pc' = "done" /\ err' = "MissingArtifact"
    /\ UNCHANGED <<prog, tokens, vocab, pairs, weights, epoch, idx, correct,
                   history, artifacts, args, start_token, probs, shown, context,
                   generated, forwards>>

\* the weights assigned as read, without the shape test
LoadArtifacts_Unchecked ==
    /\ prog = "e_infer" /\ pc = "load"
    /\ vocab' = artifacts.vocab
    /\ weights' = artifacts.weights
    /\ pc' = "args"
    /\ UNCHANGED <<prog, err, tokens, pairs, epoch, idx, correct, history,
                   artifacts, args, start_token, probs, shown, context,
                   generated, forwards>>

\* load_meta, load_vocabulary_csv, the zero model, load_model_weights_csv
LoadArtifacts ==
    /\ prog = "e_infer" /\ pc = "load"
    /\ vocab' = artifacts.vocab
    /\ LET v == vocab_size(artifacts.vocab)
       IN  IF ShapeOk(artifacts.weights, v, v * v)
           THEN /\ weights' = artifacts.weights
                /\ pc' = "args" /\ UNCHANGED err
           ELSE /\ weights' = ZeroWeights(v)
                /\ pc' = "done" /\ err' = "ShapeMismatch"
    /\ UNCHANGED <<prog, tokens, pairs, epoch, idx, correct, history, artifacts,
                   args, start_token, probs, shown, context, generated, forwards>>

\* the start token: --start, or the token of the smallest id
ChooseStart ==
    /\ prog = "e_infer" /\ pc = "args"
    /\ start_token' =
           IF args.start_token = ""
           THEN get_id_token(vocab, CHOOSE i \in Range(vocab) :
                                        \A j \in Range(vocab) : i <= j)
           ELSE args.start_token
    /\ pc' = "topk"
    /\ UNCHANGED <<prog, err, tokens, vocab, pairs, weights, epoch, idx, correct,
                   history, artifacts, args, probs, shown, context, generated,
                   forwards>>

\* the display with `start_id or 0`: an unknown start token shown as id 0
TopKDisplay_OrZero ==
    /\ prog = "e_infer" /\ pc = "topk"
    /\ LET found    == get_token_id(vocab, start_token)
           start_id == IF found = None THEN 0 ELSE found
           p        == forward(weights, vocab_size(vocab), start_id, start_id)
       IN  /\ probs' = p
           /\ shown' = top_k(p, Max(1, args.topk))
           /\ forwards' = forwards + 1
    /\ pc' = "generate"
    /\ UNCHANGED <<prog, err, tokens, vocab, pairs, weights, epoch, idx, correct,
                   history, artifacts, args, start_token, context, generated>>

\* the top-k display after (start, start), skipped for an unknown start token
TopKDisplay ==
    /\ prog = "e_infer" /\ pc = "topk"
    /\ LET start_id == get_token_id(vocab, start_token)
       IN  IF start_id # None
           THEN LET p == forward(weights, vocab_size(vocab), start_id, start_id)
                IN  /\ probs' = p
                    /\ shown' = top_k(p, Max(1, args.topk))
                    /\ forwards' = forwards + 1
           ELSE UNCHANGED <<probs, shown, forwards>>
    /\ pc' = "generate"
    /\ UNCHANGED <<prog, err, tokens, vocab, pairs, weights, epoch, idx, correct,
                   history, artifacts, args, start_token, context, generated>>

\* generate_tokens_context2, entry: the start token must be in the vocabulary
GenerateStart ==
    /\ prog = "e_infer" /\ pc = "generate"
    /\ LET start_id == get_token_id(vocab, start_token)
       IN  IF start_id = None
           THEN /\ err' = "TokenNotFound" /\ pc' = "done"
                /\ UNCHANGED <<context, generated>>
           ELSE /\ context' = <<start_id, start_id>>
                /\ generated' = <<>>
                /\ pc' = "gen_loop" /\ UNCHANGED err
    /\ UNCHANGED <<prog, tokens, vocab, pairs, weights, epoch, idx, correct,
                   history, artifacts, args, start_token, probs, shown, forwards>>

\* generate_tokens_context2, one token: forward, argmax, append, slide
GenerateStep ==
    /\ prog = "e_infer" /\ pc = "gen_loop"
    /\ Len(generated) < NumTokens
    /\ LET p       == forward(weights, vocab_size(vocab), context[1], context[2])
           next_id == argmax(p)
       IN  /\ probs' = p
           /\ generated' = Append(generated, get_id_token(vocab, next_id))
           /\ context' = <<context[2], next_id>>
    /\ forwards' = forwards + 1
    /\ UNCHANGED <<prog, pc, err, tokens, vocab, pairs, weights, epoch, idx,
                   correct, history, artifacts, args, start_token, shown>>

\* generate_tokens_context2 returns; main logs the sequence
GenerateDone ==
    /\ prog = "e_infer" /\ pc = "gen_loop"
    /\ Len(generated) >= NumTokens
    /\ pc' = "done"
    /\ UNCHANGED <<prog, err, tokens, vocab, pairs, weights, epoch, idx, correct,
                   history, artifacts, args, start_token, probs, shown, context,
                   generated, forwards>>

\* ------------------------------------------------------------ environment
\* the corpora a training run or the demo is given
Corpora == SeqsUpTo(Tokens, MaxLen) \cup {ScenarioTokens}

\* d_train.main trains on three tokens or more
MinTrainLen == 3

\* the corpora whose training runs are followed by an inference run
InferCorpora == SeqsUpTo(Tokens, MinTrainLen) \cup {ScenarioTokens}

\* what may have happened to a bundle on disk before inference reads it
Damages == {"intact", "no_meta", "no_vocab", "no_weights", "lost_row", "lost_column"}

Damaged(b, how) ==
    LET V == vocab_size(b.vocab)
    IN  CASE how = "intact"      -> b
          [] how = "no_meta"     -> [b EXCEPT !.has_meta = FALSE, !.meta = <<>>]
          [] how = "no_vocab"    -> [b EXCEPT !.has_vocab = FALSE, !.vocab = <<>>]
          [] how = "no_weights"  -> [b EXCEPT !.has_weights = FALSE, !.weights = <<>>]
          [] how = "lost_row"    ->
                 [b EXCEPT !.weights = [r \in 0..(V * V - 2) |-> b.weights[r]]]
          [] how = "lost_column" ->
                 [b EXCEPT !.weights =
                     [r \in DOMAIN b.weights |->
                         IF r = 0 THEN [i \in 0..(V - 2) |-> b.weights[r][i]]
                         ELSE b.weights[r]]]

\* --topk default
DefaultTopK == 3

\* the command lines of the inference run
ArgSets ==
    [start_token : Tokens \cup {"", UnknownToken},
     num_tokens  : (-1)..MaxNum,
     topk        : {0, DefaultTopK}]

Idle ==
    /\ err = "none"
    /\ pairs = <<>> /\ weights = <<>>
    /\ epoch = 0 /\ idx = 0 /\ correct = 0 /\ history = <<>>
    /\ start_token = ""
    /\ probs = <<>> /\ shown = <<>>
    /\ context = <<>> /\ generated = <<>> /\ forwards = 0

\* a training run
Init ==
    /\ prog = "d_train" /\ pc = "start"
    /\ tokens \in Corpora
    /\ vocab \in Vocabularies(tokens)
    /\ artifacts = EmptyArtifacts
    /\ args = NoArgs
    /\ Idle

Next ==
    \/ TrainTooShort
    \/ TrainSetup
    \/ TrainStep
    \/ EpochEnd
    \/ WriteArtifacts
    \/ QualitativeCheck

Spec == Init /\ [][Next]_vars

\* a run of the model demo
InitDemo ==
    /\ prog = "c_model" /\ pc = "start"
    /\ tokens \in Corpora
    /\ vocab \in Vocabularies(tokens)
    /\ artifacts = EmptyArtifacts
    /\ args = NoArgs
    /\ Idle

NextDemo ==
    \/ DemoTooShort
    \/ DemoSetup
    \/ DemoSelectContext
    \/ DemoForward

SpecDemo == InitDemo /\ [][NextDemo]_vars

\* e_infer.main is started after a training run has ended; the bundle it
\* finds is what that run left (nothing, for a corpus too short to train on),
\* intact or damaged.  A new process: nothing of the training run's memory.
StartInference ==
    /\ prog = "d_train" /\ pc = "done"
    /\ tokens \in InferCorpora
    /\ \E how \in (IF artifacts.has_weights THEN Damages ELSE {"intact"}) :
           artifacts' = Damaged(artifacts, how)
    /\ args' \in ArgSets
    /\ prog' = "e_infer" /\ pc' = "start"
    /\ vocab' = <<>> /\ pairs' = <<>> /\ weights' = <<>>
    /\ epoch' = 0 /\ idx' = 0 /\ correct' = 0 /\ history' = <<>>
    /\ probs' = <<>>
    /\ UNCHANGED <<err, tokens, start_token, shown, context, generated, forwards>>

\* a training run followed by an inference run
InitInfer ==
    /\ Init
    /\ tokens \in InferCorpora

NextInfer ==
    \/ Next
    \/ StartInference
    \/ RequireArtifacts
    \/ LoadArtifacts
    \/ ChooseStart
    \/ TopKDisplay
    \/ GenerateStart
    \/ GenerateStep
    \/ GenerateDone

SpecInfer == InitInfer /\ [][NextInfer]_vars

\* every program of the repository
InitAll == Init \/ InitDemo

NextAll == NextInfer \/ NextDemo

SpecAll == InitAll /\ [][NextAll]_vars

\* ===================================================================
\* Properties
\* ===================================================================
\* a table of V*V rows of V entries, rows and entries numbered from 0
HasShape(w, V) ==
    /\ DOMAIN w = 0..(V * V - 1)
    /\ \A r \in DOMAIN w : DOMAIN w[r] = 0..(V - 1)

\* the training run has built its pairs and model
Training ==
    /\ prog = "d_train"
    /\ pc \in {"train", "trained", "check"} \/ (pc = "done" /\ Len(tokens) >= MinTrainLen)

Trained ==
    /\ prog = "d_train"
    /\ pc \in {"trained", "check"} \/ (pc = "done" /\ Len(tokens) >= MinTrainLen)

\* ------------------------------------------------------------------- C1
\* the sliding windows of width 3 over ids, in corpus order
Windows(ids) ==
    [i \in 1..Max(0, Len(ids) - 2) |-> << <<ids[i], ids[i + 1]>>, ids[i + 2] >>]

\* C1: for a token-id sequence of length N, make_training_pairs returns exactly
\* max(0, N-2) pairs, the i-th being ((ids[i], ids[i+1]), ids[i+2]); the pairs
\* the training run trains on are these, in corpus order.
C1_PairsAreSlidingWindows ==
    LET ids == [k \in 1..Len(tokens) |-> vocab[tokens[k]]]
    IN  prog = "d_train" =>
            /\ Len(make_training_pairs(ids)) = Max(0, Len(ids) - 2)
            /\ make_training_pairs(ids) = Windows(ids)
            /\ Training => pairs = Windows(ids)

C1_Witness ==
    /\ Training /\ tokens = ScenarioTokens
    /\ Len(pairs) = 4
    /\ pairs[1] = pairs[4] /\ pairs[1] # pairs[2]

\* ------------------------------------------------------------------- C3
\* one or more complete epochs are behind the run and none is half done
EpochsComplete ==
    \/ prog = "d_train" /\ pc = "train" /\ idx = 1 /\ epoch > 1
    \/ Trained

\* every training pair with the context of pair i has its target
SingleTarget(i) == \A j \in 1..Len(pairs) : pairs[j][1] = pairs[i][1] => pairs[j][2] = pairs[i][2]

\* C3: after one or more complete epochs from zero weights, every context whose
\* training pairs all have the same target t has argmax forward = t; for the
\* scenario corpus after all 50 epochs, argmax forward(cat, sat) is mat.
C3_DeterministicContextsLearned ==
    /\ EpochsComplete =>
           \A i \in 1..Len(pairs) :
               SingleTarget(i) =>
                   argmax(forward(weights, vocab_size(vocab), pairs[i][1][1], pairs[i][1][2]))
                       = pairs[i][2]
    /\ (Trained /\ tokens = ScenarioTokens) =>
           argmax(forward(weights, vocab_size(vocab), vocab["cat"], vocab["sat"]))
               = vocab["mat"]

C3_Witness ==
    /\ Trained /\ tokens = ScenarioTokens
    /\ Len(history) = Epochs
    /\ vocab["mat"] = 2
    /\ forward(weights, 3, vocab["cat"], vocab["sat"])[2] > (9 * Scale) \div 10

\* ------------------------------------------------------------------- C8
\* the history while and after training: one record per finished epoch
C8_HistoryShape ==
    /\ (prog = "d_train" /\ pc = "train") =>
           /\ epoch \in 1..Epochs /\ idx \in 1..(Len(pairs) + 1)
           /\ Len(history) = epoch - 1
    /\ Trained => Len(history) = Epochs
    /\ prog = "d_train" =>
           \A k \in 1..(Len(history) - 1) : history[k].epoch < history[k + 1].epoch

\* one step of training: the next pair on the current weights, or the epoch's end
C8_StepOrder ==
    (prog = "d_train" /\ pc = "train") =>
        IF idx <= Len(pairs)
        THEN /\ idx' = idx + 1 /\ epoch' = epoch /\ history' = history /\ pc' = pc
             /\ probs' = Softmax(weights[pairs[idx][1][1] * vocab_size(vocab)
                                           + pairs[idx][1][2]])
             /\ weights' = TrainPair(weights, vocab_size(vocab), pairs[idx], LearningRate)
        ELSE /\ weights' = weights
             /\ Len(history') = Len(history) + 1
             /\ SubSeq(history', 1, Len(history)) = history
             /\ \/ epoch < Epochs /\ epoch' = epoch + 1 /\ idx' = 1 /\ pc' = pc
                \/ epoch = Epochs /\ pc' = "trained"

\* C8: training processes epochs 1..epochs in order and, inside an epoch, the
\* pairs in corpus order, each update applied before the next forward pass; one
\* record is appended after the last pair of each epoch, so the history ends
\* with exactly `epochs` records of strictly increasing epoch index.
C8_SequentialTraining == [](C8_HistoryShape) /\ [][C8_StepOrder]_vars

\* a later pair of the same epoch has read the row an earlier pair updated
C8_Witness ==
    /\ prog = "d_train" /\ pc = "train" /\ epoch = 1 /\ idx = Len(pairs) + 1
    /\ tokens = ScenarioTokens
    /\ history = <<>>
    /\ vocab["mat"] # 0 /\ correct = 2
    /\ probs[vocab["mat"]] > Scale \div 3

\* ------------------------------------------------------------------ C10
\* context (p, c) occurs in the corpus followed by a third token
Occurs(ids, p, c) == \E k \in 1..(Len(ids) - 2) : ids[k] = p /\ ids[k + 1] = c

\* rows of contexts the corpus never trains stay zero, hence uniform
C10_UntrainedRowsZero ==
    Training =>
        LET V   == vocab_size(vocab)
            ids == [k \in 1..Len(tokens) |-> vocab[tokens[k]]]
        IN  \A p, c \in 0..(V - 1) :
                ~Occurs(ids, p, c) =>
                    /\ \A i \in 0..(V - 1) : weights[p * V + c][i] = 0
                    /\ Trained =>
                           LET f == forward(weights, V, p, c)
                           IN  /\ \A i \in 0..(V - 1) : f[i] = Scale \div V
                               /\ argmax(f) = 0

\* a training step writes no row but its context's
C10_StepFrame ==
    (prog = "d_train" /\ pc = "train" /\ idx <= Len(pairs)) =>
        \A r \in DOMAIN weights :
            r # pairs[idx][1][1] * vocab_size(vocab) + pairs[idx][1][2] =>
                weights'[r] = weights[r]

\* C10: a training step on ((p, c), t) changes only row p*vocab_size + c; so
\* after training from zero every row whose context never occurs in the corpus
\* (followed by a third token) is all-zero, forward on it is uniform and greedy
\* argmax picks id 0.
C10_OnlyContextRowChanges == [](C10_UntrainedRowsZero) /\ [][C10_StepFrame]_vars

C10_Witness ==
    /\ Trained /\ tokens = ScenarioTokens
    /\ weights[RowIndex(3, vocab["cat"], vocab["cat"])] = [i \in 0..2 |-> 0]
    /\ weights[RowIndex(3, vocab["cat"], vocab["sat"])] # [i \in 0..2 |-> 0]

\* ------------------------------------------------------------------- C2
\* greedy choice: the largest probability, the smallest id among equals
Greedy(p) ==
    CHOOSE i \in DOMAIN p :
        \A j \in DOMAIN p : p[j] < p[i] \/ (p[j] = p[i] /\ i <= j)

\* the n tokens greedy decoding emits from context ctx
RECURSIVE Decode(_, _, _, _)
Decode(w, voc, ctx, n) ==
    IF n = 0 THEN <<>>
    ELSE LET nx == Greedy(Softmax(w[ctx[1] * vocab_size(voc) + ctx[2]]))
         IN  <<get_id_token(voc, nx)>> \o Decode(w, voc, <<ctx[2], nx>>, n - 1)

\* generate is running or has returned
Generating == prog = "e_infer" /\ (pc = "gen_loop" \/ (pc = "done" /\ err = "none"))

\* the ids of the start token (twice) and of the tokens emitted so far
Trail == <<vocab[start_token], vocab[start_token]>>
             \o [k \in 1..Len(generated) |-> vocab[generated[k]]]

\* C2: generate starts from context (start_id, start_id); each step emits the
\* token of argmax forward(prev, curr), ties to the smallest id, and slides the
\* context; it returns after exactly num_tokens steps, with the weights as
\* they were loaded.
C2_GreedyGeneration ==
    Generating =>
        /\ start_token \in DOMAIN vocab
        /\ generated = Decode(weights, vocab,
                              <<vocab[start_token], vocab[start_token]>>, Len(generated))
        /\ context = <<Trail[Len(Trail) - 1], Trail[Len(Trail)]>>
        /\ Len(generated) <= Max(0, args.num_tokens)
        /\ pc = "done" => Len(generated) = Max(0, args.num_tokens)
        /\ weights = artifacts.weights

C2_Witness ==
    /\ Generating /\ pc = "done"
    /\ tokens = ScenarioTokens
    /\ Len(generated) = MaxNum
    /\ generated[1] # generated[2]

\* ------------------------------------------------------------------- C4
\* the scenario: trained on the scenario corpus, generate("cat", 4) returned
ScenarioGenerated ==
    /\ prog = "e_infer" /\ pc = "done" /\ err = "none"
    /\ tokens = ScenarioTokens
    /\ args.start_token = "cat" /\ args.num_tokens = 4

\* C4 as stated: the generated sequence begins "mat cat sat mat".
C4_BeginsMatCatSatMat ==
    ScenarioGenerated => generated = <<"mat", "cat", "sat", "mat">>

\* C4, amended: the bootstrap row (cat, cat) is untrained, so the first token is
\* the token of id 0; the four tokens are "sat mat cat sat" when sat has id 0
\* and four times the token of id 0 otherwise.
C4_BootstrapFollowsIdZero ==
    ScenarioGenerated =>
        generated = IF vocab["sat"] = 0
                    THEN <<"sat", "mat", "cat", "sat">>
                    ELSE [k \in 1..4 |-> get_id_token(vocab, 0)]

C4_Witness == ScenarioGenerated /\ vocab["sat"] = 0 /\ Len(generated) = 4

\* ------------------------------------------------------------------- C5
\* the bundle was loaded and the start token chosen
StartChosen ==
    /\ prog = "e_infer"
    /\ \/ pc \in {"generate", "gen_loop"}
       \/ pc = "done" /\ err \notin {"MissingArtifact", "ShapeMismatch"}

\* C5: with a start token that is not in the vocabulary the top-k display is
\* skipped, generate emits nothing and the run ends in TokenNotFound.
C5_UnknownStartStops ==
    (StartChosen /\ start_token \notin DOMAIN vocab) =>
        /\ shown = <<>> /\ forwards = 0
        /\ generated = <<>>
        /\ pc # "gen_loop"
        /\ pc = "done" => err = "TokenNotFound"

C5_Witness ==
    /\ prog = "e_infer" /\ pc = "done" /\ err = "TokenNotFound"
    /\ start_token = UnknownToken
    /\ args.num_tokens > 0
    /\ generated = <<>>

\* ------------------------------------------------------------------- C6
BundleComplete == artifacts.has_meta /\ artifacts.has_vocab /\ artifacts.has_weights

\* the run stopped with error e before any forward pass or generation
StoppedWith(e) ==
    /\ pc = "done" /\ err = e
    /\ forwards = 0 /\ shown = <<>> /\ generated = <<>>

\* C6: a missing representation stops the inference run with MissingArtifact, a
\* weights table that is not vocab_size^2 rows of vocab_size columns with
\* ShapeMismatch, both before any forward pass; forward never reads a table
\* whose shape disagrees with the loaded vocabulary.
C6_ReaderErrorsStopRun ==
    prog = "e_infer" =>
        /\ (pc # "start" /\ ~BundleComplete) => StoppedWith("MissingArtifact")
        /\ (pc \notin {"start", "load"} /\ BundleComplete
               /\ ~HasShape(artifacts.weights, vocab_size(artifacts.vocab)))
              => StoppedWith("ShapeMismatch")
        /\ forwards > 0 => HasShape(weights, vocab_size(vocab))

C6_Witness ==
    /\ prog = "e_infer" /\ StoppedWith("ShapeMismatch")
    /\ BundleComplete
    /\ Cardinality(DOMAIN artifacts.weights) = 8

\* ------------------------------------------------------------------- C7
\* a model object exists
ModelBuilt ==
    \/ Training
    \/ prog = "c_model" /\ (pc \in {"select", "forward"} \/ (pc = "done" /\ Len(tokens) >= 2))
    \/ prog = "e_infer" /\ pc \notin {"start", "load"} /\ err # "MissingArtifact"

\* the model is as its constructor left it
FreshModel ==
    \/ prog = "d_train" /\ pc = "train" /\ epoch = 1 /\ idx = 1
    \/ prog = "c_model" /\ ModelBuilt
    \/ prog = "e_infer" /\ pc = "done" /\ err = "ShapeMismatch"

\* C7: the weight table has vocab_size^2 rows of vocab_size entries whenever a
\* model exists: all-zero at construction, and of that shape after every
\* training step and after the reload from the artifact bundle.
C7_WeightShape ==
    /\ ModelBuilt => HasShape(weights, vocab_size(vocab))
    /\ FreshModel => \A r \in DOMAIN weights : \A i \in DOMAIN weights[r] : weights[r][i] = 0

C7_Witness ==
    /\ prog = "e_infer" /\ pc = "gen_loop"
    /\ vocab_size(vocab) = 3
    /\ Cardinality(DOMAIN weights) = 9
    /\ \E r \in DOMAIN weights : weights[r][0] # 0

\* ------------------------------------------------------------------- C9
\* C9: c_model.main raises no error on any corpus: with fewer than two tokens
\* it returns, with two or more it selects a context and completes the
\* forward pass.
C9_DemoNeverRaises ==
    prog = "c_model" =>
        /\ err = "none"
        /\ pc = "done" => (Len(tokens) < 2 \/ probs # <<>>)

====
